---- MODULE Spec2Model ----
(***************************************************************************)
(* Model of the answer-submission transaction and the read-side queries of *)
(* src/app.py (a Flask application over one SQLite database file and an    *)
(* upload directory).                                                      *)
(*                                                                         *)
(* Spec      one worker serves requests one after the other; a request is  *)
(*           one action (Reject, Submit, SubmitFail).  The clock may       *)
(*           advance once while a request runs, between any two of its     *)
(*           readings of datetime.now().                                   *)
(* ConcSpec  two workers, each with its own SQLite connection, serve one   *)
(*           request each, statement by statement.  SQLite's database      *)
(*           write lock (taken by the first INSERT of a transaction,       *)
(*           released by commit or rollback) is the variable writer.       *)
(* Both are built from the same operators for the handler's computations.  *)
(* Spec also serves the read-side queries get_state and get_history.       *)
(* HistorySpec  get_history applied to every small store of the two        *)
(*           tables, a question without answers included.                  *)
(***************************************************************************)
EXTENDS Integers, Sequences, FiniteSets, TLC

\* ------------------------------------------------------------ bounds
MaxAnswers == 2    \* Spec: committed submissions over a run
MaxNow == 2        \* last clock instant of a run
TicksPerDay == 1   \* clock instants per calendar day

\* ------------------------------------------------------------ constants
Procs == {1, 2}    \* request workers, one connection each
Users == {"nidhi", "arpan"}
SourceTags == {"manual", "random"}
ALLOWED_EXTENSIONS == {"webm", "mp3", "ogg", "wav", "m4a"}

NULL == <<>>       \* SQL NULL / Python None for a text column

\* A request.  A form field is <<>> when the key is absent and <<v>> when
\* present.  A text is a sequence of characters, " " being whitespace.  A
\* filename is the sequence of its parts between dots: voice.WEBM is
\* <<"voice", "WEBM">>, the empty filename is <<"">>.
ValidForms ==
    [userId : {<<"nidhi">>, <<"arpan">>},
     questionText : {<< <<"a">> >>, << <<" ", "a", " ">> >>, << <<"b">> >>},
     source : {<<"manual">>, <<"random">>},
     audioFile : {<< <<"voice", "WEBM">> >>}]

\* forms whose questionText is whitespace only
BlankForms ==
    [userId : {<<"nidhi">>, <<"arpan">>},
     questionText : {<< <<" ">> >>},
     source : {<<"manual">>},
     audioFile : {<< <<"voice", "WEBM">> >>}]

BaseForm ==
    [userId |-> <<"nidhi">>, questionText |-> << <<"a">> >>, source |-> <<"manual">>,
     audioFile |-> << <<"voice", "WEBM">> >>]

InvalidForms ==
    {[BaseForm EXCEPT !.userId = u] : u \in {<<>>, <<"charlie">>}}
    \cup {[BaseForm EXCEPT !.questionText = t] : t \in {<<>>, << <<>> >>}}
    \cup {[BaseForm EXCEPT !.source = s] : s \in {<<>>, <<"voice">>}}
    \cup {[BaseForm EXCEPT !.audioFile = f] :
            f \in {<<>>, << <<"">> >>, << <<"voice">> >>, << <<"virus", "exe">> >>,
                   << <<"voice", "webm", "exe">> >>}}
    \cup {[BaseForm EXCEPT !.userId = <<"charlie">>, !.audioFile = << <<"virus", "exe">> >>]}

Forms == ValidForms \cup BlankForms \cup InvalidForms

VARIABLES
    now,          \* wall clock
    Questions,    \* committed Questions table: sequence of texts, id = index
    Answers,      \* committed Answers table: sequence of rows, id = index
    CoupleState,  \* committed CoupleState table: sequence of rows (id = 1)
    blobs,        \* files in UPLOAD_FOLDER
    writer,       \* holder of the database write lock, 0 when free
    pc,           \* per worker: the statement of post_answer it is at
    req,          \* per worker: the locals of post_answer and its response
    awarded,      \* history: sum of pointAwarded over the committed submissions
    log           \* history: one entry per committed submission, in commit order

vars == <<now, Questions, Answers, CoupleState, blobs, writer, pc, req, awarded, log>>

\* ------------------------------------------------------------ pure helpers

\* str.lower() on the file-name parts in use
lower(s) ==
    CASE s = "WEBM" -> "webm"
      [] s = "VOICE" -> "voice"
      [] OTHER -> s

\* filename.rsplit('.', 1)[1].lower()
Extension(filename) == lower(filename[Len(filename)])

\* mutant of allowed_file: any extension passes
allowed_file_any_extension(filename) == Len(filename) >= 2

\* allowed_file(filename)
allowed_file(filename) ==
    /\ Len(filename) >= 2
    /\ Extension(filename) \in ALLOWED_EXTENSIONS

IsSpace(c) == c = " "

RECURSIVE lstrip(_)
lstrip(s) == IF s # <<>> /\ IsSpace(Head(s)) THEN lstrip(Tail(s)) ELSE s

RECURSIVE rstrip(_)
rstrip(s) ==
    IF s # <<>> /\ IsSpace(s[Len(s)]) THEN rstrip(SubSeq(s, 1, Len(s) - 1)) ELSE s

\* str.strip()
strip(s) == rstrip(lstrip(s))

\* the calendar day of a clock instant
DayOf(t) == t \div TicksPerDay

\* get_today_str() when the clock reads t: strftime('%Y-%m-%d')
get_today_str(t) == <<DayOf(t)>>

\* get_yesterday_str() when the clock reads t
get_yesterday_str(t) == <<DayOf(t) - 1>>

\* int(datetime.now().timestamp() * 1000) when the clock reads t: the clock of
\* a run starts after the epoch, so a timestamp is positive
EpochMillis(t) == t + 1

other_user_of(user_id) == IF user_id = "nidhi" THEN "arpan" ELSE "nidhi"

\* ------------------------------------------------------------ storage

\* schema.sql, column defaults of CoupleState: the columns init_db does not set
SchemaDefaults ==
    [daily_progress_date |-> NULL, daily_random_answered |-> 0, daily_manual_answered |-> 0]

\* schema.sql, Questions.text UNIQUE: may a row with this text be inserted
QuestionTextUnique(text) == \A i \in 1..Len(Questions) : Questions[i] # text

\* mutant of InitialCoupleState: the last update is dated the day of the boot
InitialCoupleStateToday ==
    [love_points |-> 0, streak_count |-> 0,
     last_streak_update_date |-> get_today_str(0),
     daily_progress_date |-> SchemaDefaults.daily_progress_date,
     daily_random_answered |-> SchemaDefaults.daily_random_answered,
     daily_manual_answered |-> SchemaDefaults.daily_manual_answered]

\* init_db: the CoupleState row inserted at first boot
InitialCoupleState ==
    [love_points |-> 0, streak_count |-> 0,
     last_streak_update_date |-> get_yesterday_str(0),
     daily_progress_date |-> SchemaDefaults.daily_progress_date,
     daily_random_answered |-> SchemaDefaults.daily_random_answered,
     daily_manual_answered |-> SchemaDefaults.daily_manual_answered]

NoResponse ==
    [status |-> 0, error |-> "", pointAwarded |-> 0, lovePoints |-> 0, streak |-> 0,
     lastStreakUpdateDate |-> NULL, dailyRandomAnswered |-> 0, dailyManualAnswered |-> 0]

\* the locals of post_answer before the request is read
NoLocals ==
    [form |-> <<>>,
     user_id |-> "", question_text |-> <<>>, source |-> "", audio_file |-> <<>>,
     question_id |-> 0, inserted_question |-> FALSE,
     filepath |-> <<>>, answer |-> <<>>,
     points_to_add |-> 0, state |-> <<>>, today_str |-> NULL, update |-> <<>>,
     resp |-> NoResponse]

Init ==
    /\ now = 0
    /\ Questions = <<>>
    /\ Answers = <<>>
    /\ CoupleState = <<InitialCoupleState>>
    /\ blobs = {}
    /\ writer = 0
    /\ pc = [p \in Procs |-> "idle"]
    /\ req = [p \in Procs |-> NoLocals]
    /\ awarded = 0
    /\ log = <<>>

\* ------------------------------------------------------------ post_answer: computations

\* the input validation of post_answer: the error it returns, "" when none
Validate(form) ==
    IF form.userId = <<>> \/ form.userId[1] \notin Users
        THEN "Missing or invalid userId"
    ELSE IF form.questionText = <<>> \/ form.questionText[1] = <<>>
        THEN "Missing questionText"
    ELSE IF form.source = <<>> \/ form.source[1] \notin SourceTags
        THEN "Missing or invalid source"
    ELSE IF form.audioFile = <<>>
        THEN "Missing audioFile"
    ELSE IF form.audioFile[1] = <<"">> \/ ~allowed_file(form.audioFile[1])
        THEN "Invalid audio file type"
    ELSE ""

\* the locals once the form is read
ReadForm(form) ==
    [NoLocals EXCEPT !.form = <<form>>,
                     !.user_id = form.userId[1],
                     !.question_text = strip(form.questionText[1]),
                     !.source = form.source[1],
                     !.audio_file = form.audioFile[1]]

\* the 400 response of a failed validation
Rejected(form, err) ==
    [NoLocals EXCEPT !.form = <<form>>,
                     !.resp = [NoResponse EXCEPT !.status = 400, !.error = err]]

\* mutant of QuestionRow: the lookup finds no row
QuestionRowNone(text) == 0

\* SELECT id FROM Questions WHERE text = ?: the row's id, 0 when there is none
QuestionRow(text) ==
    IF \E i \in 1..Len(Questions) : Questions[i] = text
    THEN CHOOSE i \in 1..Len(Questions) :
            /\ Questions[i] = text
            /\ \A j \in 1..(i - 1) : Questions[j] # text
    ELSE 0

\* uuid.uuid4(): a name no file has and no request in progress was given
FreshUuid ==
    LET taken == {b[1] : b \in blobs}
                 \cup {req[p].filepath[1][1] : p \in {q \in Procs : req[q].filepath # <<>>}}
    IN  CHOOSE n \in 1..(Cardinality(taken) + 1) : n \notin taken

\* unique_filename = f"{uuid.uuid4()}.{ext}"
UniqueFilename(audio_file) == <<FreshUuid, Extension(audio_file)>>

\* the row INSERT INTO Answers adds
AnswerRow(question_id, user_id, unique_filename, timestamp) ==
    [question_id |-> question_id, user_id |-> user_id,
     audio_filename |-> unique_filename, timestamp |-> timestamp]

\* mutant of AnswerCount: the user_id condition is left out
AnswerCountAnyUser(rows, question_id, user_id) ==
    Cardinality({i \in 1..Len(rows) : rows[i].question_id = question_id})

\* SELECT COUNT(*) FROM Answers WHERE question_id = ? AND user_id = ?
AnswerCount(rows, question_id, user_id) ==
    Cardinality({i \in 1..Len(rows) :
                    rows[i].question_id = question_id /\ rows[i].user_id = user_id})

\* mutant of PointsToAdd: nothing is awarded until the counterpart has answered
PointsToAddOnlyBonus(other_answered_count) == IF other_answered_count = 0 THEN 0 ELSE 5

\* the point rule: 1 for the first of the two users to answer, 5 for the second
PointsToAdd(other_answered_count) == IF other_answered_count = 0 THEN 1 ELSE 5

\* mutant of NewPoints: the points are stored, not added
NewPointsOverwrite(current_points, points_to_add) == points_to_add

\* new_points = current_points + points_to_add
NewPoints(current_points, points_to_add) == current_points + points_to_add

\* the streak rule
NewStreak(points_to_add, current_streak, last_update_date_str, today_str, yesterday_str) ==
    IF points_to_add > 0 /\ last_update_date_str # today_str
    THEN IF last_update_date_str = yesterday_str THEN current_streak + 1 ELSE 1
    ELSE current_streak

\* mutant of NewLastUpdateDate: today is never recorded
NewLastUpdateDateStale(points_to_add, last_update_date_str, today_str) ==
    last_update_date_str

NewLastUpdateDate(points_to_add, last_update_date_str, today_str) ==
    IF points_to_add > 0 /\ last_update_date_str # today_str
    THEN today_str
    ELSE last_update_date_str

\* mutant of DailyFlags: the flags are reset by every submission
DailyFlagsAlwaysReset(state, today_str, source) ==
    IF source = "random" THEN <<today_str, 1, 0>> ELSE <<today_str, 0, 1>>

\* mutant of DailyFlags: a new day resets the flags but the date marker is
\* not moved to today
DailyFlagsKeepsDate(state, today_str, source) ==
    LET new_day == state.daily_progress_date # today_str
        random0 == IF new_day THEN 0 ELSE state.daily_random_answered
        manual0 == IF new_day THEN 0 ELSE state.daily_manual_answered
    IN  IF source = "random" /\ random0 = 0
        THEN <<state.daily_progress_date, 1, manual0>>
        ELSE IF source = "manual" /\ manual0 = 0
        THEN <<state.daily_progress_date, random0, 1>>
        ELSE <<state.daily_progress_date, random0, manual0>>

\* the daily progress flags: <<daily_progress_date, daily_random, daily_manual>>
DailyFlags(state, today_str, source) ==
    LET new_day == state.daily_progress_date # today_str
        date == IF new_day THEN today_str ELSE state.daily_progress_date
        random0 == IF new_day THEN 0 ELSE state.daily_random_answered
        manual0 == IF new_day THEN 0 ELSE state.daily_manual_answered
    IN  IF source = "random" /\ random0 = 0 THEN <<date, 1, manual0>>
        ELSE IF source = "manual" /\ manual0 = 0 THEN <<date, random0, 1>>
        ELSE <<date, random0, manual0>>

\* history: what a committing submission did to the streak and the daily flags
LogEntry(state, update, today_str) ==
    [day |-> today_str,
     streak_changed |-> \/ update.streak_count # state.streak_count
                        \/ update.last_streak_update_date # state.last_streak_update_date,
     flags_reset |-> state.daily_progress_date # today_str]

\* the row UPDATE CoupleState writes
NewCoupleState(state, points_to_add, today_str, yesterday_str, source) ==
    LET flags == DailyFlags(state, today_str, source) IN
    [love_points |-> NewPoints(state.love_points, points_to_add),
     streak_count |-> NewStreak(points_to_add, state.streak_count,
                                state.last_streak_update_date, today_str, yesterday_str),
     last_streak_update_date |->
         NewLastUpdateDate(points_to_add, state.last_streak_update_date, today_str),
     daily_progress_date |-> flags[1],
     daily_random_answered |-> flags[2],
     daily_manual_answered |-> flags[3]]

\* the 201 response, from the row read after the commit when the clock reads t
Response201(point_awarded_this_time, final_rows, t) ==
    LET has == final_rows # <<>>
        final_state == final_rows[1]
        fresh == has /\ final_state.daily_progress_date = get_today_str(t)
    IN  [status |-> 201, error |-> "",
         pointAwarded |-> point_awarded_this_time,
         lovePoints |-> IF has THEN final_state.love_points ELSE 0,
         streak |-> IF has THEN final_state.streak_count ELSE 0,
         lastStreakUpdateDate |->
             IF has THEN final_state.last_streak_update_date ELSE get_yesterday_str(t),
         dailyRandomAnswered |-> IF fresh THEN final_state.daily_random_answered ELSE 0,
         dailyManualAnswered |-> IF fresh THEN final_state.daily_manual_answered ELSE 0]

\* the 500 response of the except block; of the locals, filepath is kept
Failed(filepath, error) ==
    [NoLocals EXCEPT !.filepath = filepath,
                     !.resp = [NoResponse EXCEPT !.status = 500, !.error = error]]

\* ------------------------------------------------------------ get_pending_questions

\* SELECT DISTINCT q.id ... FROM Questions q JOIN Answers a ON q.id = a.question_id
\* WHERE a.user_id = ?: the ids of the questions a user answered
AnsweredQuestionIds(user_id) ==
    {q \in 1..Len(Questions) :
        \E i \in 1..Len(Answers) :
            Answers[i].question_id = q /\ Answers[i].user_id = user_id}

\* mutant of CurrentUserAnsweredIds: the query is run for the counterpart's
\* questions only, and no answer of the user is found among them
CurrentUserAnsweredIdsNone(user_id, other_ids) == {}

\* SELECT DISTINCT question_id FROM Answers WHERE user_id = ? AND question_id IN (...)
CurrentUserAnsweredIds(user_id, other_ids) ==
    {Answers[i].question_id : i \in {j \in 1..Len(Answers) :
        Answers[j].user_id = user_id /\ Answers[j].question_id \in other_ids}}

\* SELECT MAX(timestamp) FROM Answers WHERE question_id = ? AND user_id = ?, or 0
MaxTimestamp(question_id, user_id) ==
    LET ts == {Answers[i].timestamp : i \in {j \in 1..Len(Answers) :
                  Answers[j].question_id = question_id /\ Answers[j].user_id = user_id}}
    IN  IF ts = {} THEN 0 ELSE CHOOSE t \in ts : \A u \in ts : u <= t

\* the entries of the list get_pending_questions(user_id) returns
PendingQuestions(user_id) ==
    LET other_user == other_user_of(user_id)
        other_user_answered_questions == AnsweredQuestionIds(other_user)
        current_user_answered_ids ==
            CurrentUserAnsweredIds(user_id, other_user_answered_questions)
    IN  {[id |-> q_id, text |-> Questions[q_id], asked_by |-> other_user,
          timestamp |-> MaxTimestamp(q_id, other_user)] :
            q_id \in other_user_answered_questions \ current_user_answered_ids}

\* ------------------------------------------------------------ get_state

\* mutant of ReportedFlag: the stored flag is reported whatever its date
ReportedFlagStored(state_row, flag, today_str) == state_row[flag]

\* state_row[flag] if state_row["daily_progress_date"] == today_str else 0
ReportedFlag(state_row, flag, today_str) ==
    IF state_row.daily_progress_date = today_str THEN state_row[flag] ELSE 0

\* the response of get_state when the clock reads t
StateResponse(rows, t) ==
    IF rows # <<>>
    THEN LET state_row == rows[1]
             today_str == get_today_str(t)
         IN  [status |-> 200, error |-> "",
              lovePoints |-> state_row.love_points,
              streak |-> state_row.streak_count,
              lastStreakUpdateDate |-> state_row.last_streak_update_date,
              dailyRandomAnswered |->
                  ReportedFlag(state_row, "daily_random_answered", today_str),
              dailyManualAnswered |->
                  ReportedFlag(state_row, "daily_manual_answered", today_str)]
    ELSE [status |-> 500, error |-> "Could not retrieve couple state"]

\* ------------------------------------------------------------ get_history

\* the orders in which n rows can be returned
Orders(n) == {o \in [1..n -> 1..n] : \A i, j \in 1..n : i # j => o[i] # o[j]}

\* SELECT ... FROM Answers ORDER BY timestamp DESC: the orders the rows may
\* come in (rows of equal timestamp in any order)
AnswersByTimestampDesc ==
    {o \in Orders(Len(Answers)) :
        \A i, j \in 1..Len(Answers) :
            i < j => Answers[o[i]].timestamp >= Answers[o[j]].timestamp}

\* url_for('serve_audio', filename=...): the route /api/audio/<filename>
url_for_serve_audio(filename) == <<"api", "audio", filename>>

\* mutant of KeepsRow: every row replaces the user's entry
KeepsRowAlways(answers, user, timestamp) == TRUE

\* user not in answers or timestamp > answers[user]["timestamp"]
KeepsRow(answers, user, timestamp) ==
    \/ ~\E e \in answers : e.user = user
    \/ \E e \in answers : e.user = user /\ timestamp > e.timestamp

\* questions[q_id]["answers"] once the first n rows of the order are processed:
\* the entries of the dict, each with its key
RECURSIVE QuestionAnswers(_, _, _)
QuestionAnswers(q_id, order, n) ==
    IF n = 0 THEN {}
    ELSE LET answers == QuestionAnswers(q_id, order, n - 1)
             answer_row == Answers[order[n]]
             user == answer_row.user_id
         IN  IF /\ answer_row.question_id = q_id
                /\ q_id \in 1..Len(Questions)
                /\ KeepsRow(answers, user, answer_row.timestamp)
             THEN {e \in answers : e.user # user}
                  \cup {[user |-> user,
                         audioUrl |-> url_for_serve_audio(answer_row.audio_filename),
                         timestamp |-> answer_row.timestamp]}
             ELSE answers

\* one value of the questions dict
HistoryEntry(q_id, order) ==
    [id |-> q_id, text |-> Questions[q_id],
     answers |-> QuestionAnswers(q_id, order, Len(Answers))]

\* max((a.get('timestamp', 0) for a in answers.values()), default=0)
SortKey(answers) ==
    IF answers = {} THEN 0
    ELSE CHOOSE t \in {e.timestamp : e \in answers} :
            \A e \in answers : e.timestamp <= t

\* mutant of History: the sort is ascending (reverse=True left out)
HistoryAscending(order) ==
    LET n == Len(Questions)
        key(q_id) == SortKey(HistoryEntry(q_id, order).answers)
        ids == CHOOSE o \in Orders(n) :
                  \A i, j \in 1..n :
                      i < j => \/ key(o[i]) < key(o[j])
                               \/ key(o[i]) = key(o[j]) /\ o[i] > o[j]
    IN  [i \in 1..n |-> HistoryEntry(ids[i], order)]

\* sorted(list(questions.values()), key=..., reverse=True): a stable sort of
\* the dict's values, which are in the order of SELECT ... ORDER BY id DESC;
\* questions of equal key keep that order
History(order) ==
    LET n == Len(Questions)
        key(q_id) == SortKey(HistoryEntry(q_id, order).answers)
        ids == CHOOSE o \in Orders(n) :
                  \A i, j \in 1..n :
                      i < j => \/ key(o[i]) > key(o[j])
                               \/ key(o[i]) = key(o[j]) /\ o[i] > o[j]
    IN  [i \in 1..n |-> HistoryEntry(ids[i], order)]

\* ------------------------------------------------------------ the clock

Tick ==
    /\ now < MaxNow
    /\ now' = now + 1
    /\ UNCHANGED <<Questions, Answers, CoupleState, blobs, writer, pc, req, awarded, log>>

\* ------------------------------------------------------------ post_answer, one request at a time

SeqProcs == {1}

\* The clock readings of one run of post_answer that starts at instant t0:
\* the timestamp, today_str, yesterday_str and today_str_check.  The clock
\* advances at most once during the run: before reading k (0: not at all).
ClockReads(t0, k) ==
    [timestamp |-> t0,
     today |-> IF k = 1 THEN t0 + 1 ELSE t0,
     yesterday |-> IF k \in {1, 2} THEN t0 + 1 ELSE t0,
     check |-> IF k \in {1, 2, 3} THEN t0 + 1 ELSE t0]

\* a request that fails validation: 400, nothing is written
Reject(p) ==
    /\ pc[p] = "idle"
    /\ writer = 0
    /\ \E form \in Forms :
          /\ Validate(form) # ""
          /\ req' = [req EXCEPT ![p] = Rejected(form, Validate(form))]
    /\ pc' = [pc EXCEPT ![p] = "done"]
    /\ UNCHANGED <<now, Questions, Answers, CoupleState, blobs, writer, awarded, log>>

\* a request that passes validation and commits: 201
Submit(p) ==
    /\ pc[p] = "idle"
    /\ writer = 0
    /\ Len(Answers) < MaxAnswers
    /\ CoupleState # <<>>
    /\ \E form \in Forms, k \in 0..3 :
          /\ Validate(form) = ""
          /\ k > 0 => now < MaxNow
          /\ LET l == ReadForm(form)
                 t == ClockReads(now, k)
                 question_row == QuestionRow(l.question_text)
                 question_id == IF question_row # 0 THEN question_row
                                ELSE Len(Questions) + 1
                 unique_filename == UniqueFilename(l.audio_file)
                 answer == AnswerRow(question_id, l.user_id, unique_filename,
                                     EpochMillis(t.timestamp))
                 other_answered_count ==
                     AnswerCount(Append(Answers, answer), question_id, other_user_of(l.user_id))
                 points_to_add == PointsToAdd(other_answered_count)
                 state == CoupleState[1]
                 update == NewCoupleState(state, points_to_add, get_today_str(t.today),
                                          get_yesterday_str(t.yesterday), l.source)
             IN  /\ Questions' = IF question_row = 0
                                 THEN Append(Questions, l.question_text)
                                 ELSE Questions
                 /\ blobs' = blobs \cup {unique_filename}
                 /\ Answers' = Append(Answers, answer)
                 /\ CoupleState' = <<update>>
                 /\ awarded' = awarded + points_to_add
                 /\ log' = Append(log, LogEntry(state, update, get_today_str(t.today)))
                 /\ now' = t.check
                 /\ req' = [req EXCEPT ![p] =
                      [l EXCEPT !.question_id = question_id,
                                !.inserted_question = (question_row = 0),
                                !.filepath = <<unique_filename>>,
                                !.answer = <<answer>>,
                                !.points_to_add = points_to_add,
                                !.state = <<state>>,
                                !.today_str = get_today_str(t.today),
                                !.update = <<update>>,
                                !.resp = Response201(points_to_add, <<update>>, t.check)]]
    /\ pc' = [pc EXCEPT ![p] = "done"]
    /\ UNCHANGED writer

\* a request that passes validation and whose try block raises, before the file
\* is written or after: db.rollback() undoes the inserts, the file is removed, 500
SubmitFail(p) ==
    /\ pc[p] = "idle"
    /\ writer = 0
    /\ \E form \in Forms, written \in BOOLEAN :
          /\ Validate(form) = ""
          /\ req' = [req EXCEPT ![p] =
                Failed(IF written THEN <<UniqueFilename(form.audioFile[1])>> ELSE <<>>,
                       "Failed to process answer")]
    /\ pc' = [pc EXCEPT ![p] = "done"]
    /\ UNCHANGED <<now, Questions, Answers, CoupleState, blobs, writer, awarded, log>>

\* GET /api/state: the stored row is read and reported, nothing is written
GetState(p) ==
    /\ pc[p] = "idle"
    /\ writer = 0
    /\ req' = [req EXCEPT ![p].resp = StateResponse(CoupleState, now)]
    /\ pc' = [pc EXCEPT ![p] = "done"]
    /\ UNCHANGED <<now, Questions, Answers, CoupleState, blobs, writer, awarded, log>>

\* GET /api/history: the two tables are read and reported, nothing is written
GetHistory(p) ==
    /\ pc[p] = "idle"
    /\ writer = 0
    /\ \E order \in AnswersByTimestampDesc :
          req' = [req EXCEPT ![p].resp =
                    [status |-> 200, error |-> "", history |-> History(order)]]
    /\ pc' = [pc EXCEPT ![p] = "done"]
    /\ UNCHANGED <<now, Questions, Answers, CoupleState, blobs, writer, awarded, log>>

\* the response is sent and the request context torn down (close_db)
Return(p) ==
    /\ pc[p] = "done"
    /\ pc' = [pc EXCEPT ![p] = "idle"]
    /\ req' = [req EXCEPT ![p] = NoLocals]
    /\ UNCHANGED <<now, Questions, Answers, CoupleState, blobs, writer, awarded, log>>

Next ==
    \/ Tick
    \/ \E p \in SeqProcs :
          \/ Reject(p)
          \/ Submit(p)
          \/ SubmitFail(p)
          \/ GetState(p)
          \/ GetHistory(p)
          \/ Return(p)

Spec == Init /\ [][Next]_vars

\* ------------------------------------------------------------ post_answer, statement by statement

\* the request is read and validated; a failed validation returns 400
Begin(p) ==
    /\ pc[p] = "idle"
    /\ \E form \in Forms :
          IF Validate(form) # ""
          THEN /\ pc' = [pc EXCEPT ![p] = "done"]
               /\ req' = [req EXCEPT ![p] = Rejected(form, Validate(form))]
          ELSE /\ pc' = [pc EXCEPT ![p] = "select_q"]
               /\ req' = [req EXCEPT ![p] = ReadForm(form)]
    /\ UNCHANGED <<now, Questions, Answers, CoupleState, blobs, writer, awarded, log>>

\* SELECT id FROM Questions WHERE text = ?
SelectQuestion(p) ==
    /\ pc[p] = "select_q"
    /\ LET question_row == QuestionRow(req[p].question_text) IN
       IF question_row # 0
       THEN /\ req' = [req EXCEPT ![p].question_id = question_row]
            /\ pc' = [pc EXCEPT ![p] = "save"]
       ELSE /\ req' = req
            /\ pc' = [pc EXCEPT ![p] = "insert_q"]
    /\ UNCHANGED <<now, Questions, Answers, CoupleState, blobs, writer, awarded, log>>

\* mutant of LockFree: the store does not serialize writers
LockFreeAlways(p) == TRUE

\* the database write lock is free for this connection
LockFree(p) == writer \in {0, p}

\* INSERT INTO Questions: opens the transaction and takes the write lock
InsertQuestion(p) ==
    /\ pc[p] = "insert_q"
    /\ LockFree(p)
    /\ QuestionTextUnique(req[p].question_text)
    /\ writer' = p
    /\ req' = [req EXCEPT ![p].inserted_question = TRUE,
                          ![p].question_id = Len(Questions) + 1]
    /\ pc' = [pc EXCEPT ![p] = "save"]
    /\ UNCHANGED <<now, Questions, Answers, CoupleState, blobs, awarded, log>>

\* audio_file.save(filepath) under a fresh uuid4 name
SaveAudio(p) ==
    /\ pc[p] = "save"
    /\ req' = [req EXCEPT ![p].filepath = <<UniqueFilename(req[p].audio_file)>>]
    /\ blobs' = blobs \cup {UniqueFilename(req[p].audio_file)}
    /\ pc' = [pc EXCEPT ![p] = "insert_a"]
    /\ UNCHANGED <<now, Questions, Answers, CoupleState, writer, awarded, log>>

\* INSERT INTO Answers: opens the transaction if no statement did, takes the lock
InsertAnswer(p) ==
    /\ pc[p] = "insert_a"
    /\ LockFree(p)
    /\ writer' = p
    /\ req' = [req EXCEPT ![p].answer =
                 <<AnswerRow(req[p].question_id, req[p].user_id, req[p].filepath[1],
                               EpochMillis(now))>>]
    /\ pc' = [pc EXCEPT ![p] = "award"]
    /\ UNCHANGED <<now, Questions, Answers, CoupleState, blobs, awarded, log>>

\* the count of the counterpart's answers, over the committed rows and this
\* transaction's insert
AwardPoints(p) ==
    /\ pc[p] = "award"
    /\ LET other_user == other_user_of(req[p].user_id)
           other_answered_count ==
               AnswerCount(Answers \o req[p].answer, req[p].question_id, other_user)
       IN  req' = [req EXCEPT ![p].points_to_add = PointsToAdd(other_answered_count)]
    /\ pc' = [pc EXCEPT ![p] = "fetch_state"]
    /\ UNCHANGED <<now, Questions, Answers, CoupleState, blobs, writer, awarded, log>>

\* SELECT ... FROM CoupleState WHERE id = 1 (a missing row raises: see Fail),
\* then today_str = get_today_str()
FetchState(p) ==
    /\ pc[p] = "fetch_state"
    /\ CoupleState # <<>>
    /\ req' = [req EXCEPT ![p].state = <<CoupleState[1]>>,
                          ![p].today_str = get_today_str(now)]
    /\ pc' = [pc EXCEPT ![p] = "update"]
    /\ UNCHANGED <<now, Questions, Answers, CoupleState, blobs, writer, awarded, log>>

\* yesterday_str = get_yesterday_str(), the new row is computed, UPDATE CoupleState
UpdateState(p) ==
    /\ pc[p] = "update"
    /\ req' = [req EXCEPT ![p].update =
                 <<NewCoupleState(req[p].state[1], req[p].points_to_add, req[p].today_str,
                                  get_yesterday_str(now), req[p].source)>>]
    /\ pc' = [pc EXCEPT ![p] = "commit"]
    /\ UNCHANGED <<now, Questions, Answers, CoupleState, blobs, writer, awarded, log>>

\* mutant of Commit: the new state is stored as a second CoupleState row
CommitInsertsState(p) ==
    /\ pc[p] = "commit"
    /\ Questions' = IF req[p].inserted_question
                    THEN Append(Questions, req[p].question_text)
                    ELSE Questions
    /\ Answers' = Answers \o req[p].answer
    /\ CoupleState' = CoupleState \o req[p].update
    /\ writer' = 0
    /\ awarded' = awarded + req[p].points_to_add
    /\ log' = Append(log, LogEntry(req[p].state[1], req[p].update[1], req[p].today_str))
    /\ pc' = [pc EXCEPT ![p] = "final"]
    /\ UNCHANGED <<now, blobs, req>>

\* db.commit(): the transaction's rows become the stored ones, the lock is freed
Commit(p) ==
    /\ pc[p] = "commit"
    /\ Questions' = IF req[p].inserted_question
                    THEN Append(Questions, req[p].question_text)
                    ELSE Questions
    /\ Answers' = Answers \o req[p].answer
    /\ CoupleState' = req[p].update
    /\ writer' = 0
    /\ awarded' = awarded + req[p].points_to_add
    /\ log' = Append(log, LogEntry(req[p].state[1], req[p].update[1], req[p].today_str))
    /\ pc' = [pc EXCEPT ![p] = "final"]
    /\ UNCHANGED <<now, blobs, req>>

\* the state is read again after the commit and returned with 201
FinalFetch(p) ==
    /\ pc[p] = "final"
    /\ req' = [req EXCEPT ![p].resp = Response201(req[p].points_to_add, CoupleState, now)]
    /\ pc' = [pc EXCEPT ![p] = "done"]
    /\ UNCHANGED <<now, Questions, Answers, CoupleState, blobs, writer, awarded, log>>

\* the statements of the try block, each of which can raise
TryPcs == {"select_q", "insert_q", "save", "insert_a", "award", "fetch_state",
           "update", "commit"}

\* mutant of Fail: the except block does not remove the written file
FailNoCleanup(p) ==
    /\ pc[p] \in TryPcs
    /\ writer' = IF writer = p THEN 0 ELSE writer
    /\ req' = [req EXCEPT ![p] = Failed(req[p].filepath, "Failed to process answer")]
    /\ pc' = [pc EXCEPT ![p] = "done"]
    /\ UNCHANGED <<now, Questions, Answers, CoupleState, blobs, awarded, log>>

\* mutant of Fail: the Question row inserted by the failing submission is kept
\* (the insert was committed on its own)
FailKeepsQuestion(p) ==
    /\ pc[p] \in TryPcs
    /\ writer' = IF writer = p THEN 0 ELSE writer
    /\ blobs' = IF req[p].filepath # <<>> THEN blobs \ {req[p].filepath[1]} ELSE blobs
    /\ Questions' = IF req[p].inserted_question
                    THEN Append(Questions, req[p].question_text)
                    ELSE Questions
    /\ req' = [req EXCEPT ![p] = Failed(req[p].filepath, "Failed to process answer")]
    /\ pc' = [pc EXCEPT ![p] = "done"]
    /\ UNCHANGED <<now, Answers, CoupleState, awarded, log>>

\* a statement raises (a storage error, the lock wait timing out, a UNIQUE
\* violation, the missing CoupleState row): db.rollback() drops the
\* transaction and frees the lock, the written file is removed, 500
Fail(p) ==
    /\ pc[p] \in TryPcs
    /\ writer' = IF writer = p THEN 0 ELSE writer
    /\ blobs' = IF req[p].filepath # <<>> THEN blobs \ {req[p].filepath[1]} ELSE blobs
    /\ req' = [req EXCEPT ![p] = Failed(req[p].filepath, "Failed to process answer")]
    /\ pc' = [pc EXCEPT ![p] = "done"]
    /\ UNCHANGED <<now, Questions, Answers, CoupleState, awarded, log>>

\* as Fail, with os.remove raising OSError: it is logged and the file stays
FailRemoveError(p) ==
    /\ pc[p] \in TryPcs
    /\ req[p].filepath # <<>>
    /\ req[p].filepath[1] \in blobs
    /\ writer' = IF writer = p THEN 0 ELSE writer
    /\ req' = [req EXCEPT ![p] =
                 Failed(req[p].filepath, "Failed to process answer; cleanup failed")]
    /\ pc' = [pc EXCEPT ![p] = "done"]
    /\ UNCHANGED <<now, Questions, Answers, CoupleState, blobs, awarded, log>>

ConcNext ==
    \/ Tick
    \/ \E p \in Procs :
          \/ Begin(p)
          \/ SelectQuestion(p)
          \/ InsertQuestion(p)
          \/ SaveAudio(p)
          \/ InsertAnswer(p)
          \/ AwardPoints(p)
          \/ FetchState(p)
          \/ UpdateState(p)
          \/ Commit(p)
          \/ FinalFetch(p)
          \/ Fail(p)
          \/ FailRemoveError(p)

ConcSpec == Init /\ [][ConcNext]_vars

\* ------------------------------------------------------------ get_history over any store

\* the question texts of the stores the history query is applied to
StoredTexts == {<<"a">>, <<"b">>}

\* get_history is a function of the two tables.  It is applied here to every
\* small store the tables admit: unique texts, answers that reference stored
\* questions, timestamps that do not decrease with the row id; a question may
\* have no answer.
HistoryInit ==
    /\ now = 0
    /\ CoupleState = <<InitialCoupleState>>
    /\ writer = 0
    /\ pc = [p \in Procs |-> "idle"]
    /\ req = [p \in Procs |-> NoLocals]
    /\ awarded = 0
    /\ log = <<>>
    /\ \E qs \in {<<>>} \cup {<<t>> : t \in StoredTexts}
                       \cup {<<v[1], v[2]>> : v \in {w \in StoredTexts \X StoredTexts : w[1] # w[2]}},
          n \in 0..MaxAnswers :
          \E rows \in [1..n -> [question_id : 1..Len(qs), user_id : Users,
                                timestamp : {EpochMillis(t) : t \in 0..MaxNow}]] :
             /\ \A i, j \in 1..n : i < j => rows[i].timestamp <= rows[j].timestamp
             /\ Questions = qs
             /\ Answers = [i \in 1..n |->
                             AnswerRow(rows[i].question_id, rows[i].user_id,
                                       <<i, "webm">>, rows[i].timestamp)]
             /\ blobs = {<<i, "webm">> : i \in 1..n}

HistoryNext ==
    \E p \in SeqProcs :
        \/ GetHistory(p)
        \/ Return(p)

HistorySpec == HistoryInit /\ [][HistoryNext]_vars

\* ------------------------------------------------------------ properties

\* worker p has answered 201 and not yet returned; under Spec the last row of
\* Answers is then the one this submission inserted
Done201(p) == pc[p] = "done" /\ req[p].resp.status = 201

Counterpart(u) == CHOOSE v \in Users : v # u

\* the Answers rows stored before the last one was inserted
PriorAnswers == SubSeq(Answers, 1, Len(Answers) - 1)

HasAnswer(rows, question_id, user_id) ==
    \E i \in 1..Len(rows) : rows[i].question_id = question_id /\ rows[i].user_id = user_id

\* C1: a successful submission by U to Q is awarded 1 point when the
\* counterpart of U had no Answer row for Q at the time, and 5 when it had at
\* least one; U's own earlier answers to Q play no part.
C1_PointRule ==
    \A p \in Procs : Done201(p) =>
        /\ Answers[Len(Answers)] = req[p].answer[1]
        /\ req[p].resp.pointAwarded =
              IF HasAnswer(PriorAnswers, req[p].question_id, Counterpart(req[p].user_id))
              THEN 5 ELSE 1

C1_Witness ==
    \E p \in Procs :
        /\ Done201(p)
        /\ req[p].resp.pointAwarded = 5
        /\ HasAnswer(PriorAnswers, req[p].question_id, Counterpart(req[p].user_id))

\* C2: after any sequence of successful, rejected and failed submissions the
\* stored lovePoints is the sum of pointAwarded over the successful ones.
C2_PointsAccounting ==
    /\ Len(CoupleState) = 1
    /\ CoupleState[1].love_points = awarded
    /\ \A p \in Procs : Done201(p) => req[p].resp.pointAwarded = req[p].points_to_add

C2_Witness ==
    /\ awarded = 6
    /\ CoupleState[1].love_points = 6
    /\ \E p \in Procs : pc[p] = "done" /\ req[p].resp.status = 500

\* C3: a submission made when the stored lastStreakUpdateDate is not today
\* sets streakCount to the old value plus 1 when that date is yesterday and to
\* 1 otherwise, and sets lastStreakUpdateDate to today.
C3_StreakRule ==
    \A p \in Procs : Done201(p) =>
        LET before == req[p].state[1]
            after == CoupleState[1]
            today == req[p].today_str
            yesterday == <<today[1] - 1>>
        IN  before.last_streak_update_date # today =>
              /\ after.streak_count =
                    IF before.last_streak_update_date = yesterday
                    THEN before.streak_count + 1
                    ELSE 1
              /\ after.last_streak_update_date = today

\* C4: of the successful submissions of one calendar day, only the first
\* changes streakCount or lastStreakUpdateDate.
C4_StreakOncePerDay ==
    /\ \A i, j \in 1..Len(log) :
          (i < j /\ log[i].day = log[j].day) => ~log[j].streak_changed
    /\ \A p \in Procs : Done201(p) =>
          LET before == req[p].state[1]
              after == CoupleState[1]
          IN  before.last_streak_update_date = req[p].today_str =>
                /\ after.streak_count = before.streak_count
                /\ after.last_streak_update_date = before.last_streak_update_date

C4_Witness ==
    /\ Len(log) = 2
    /\ log[1].day = log[2].day
    /\ log[1].streak_changed
    /\ \E p \in Procs : Done201(p) /\ req[p].resp.pointAwarded = 5

Flag(row, source) ==
    IF source = "random" THEN row.daily_random_answered ELSE row.daily_manual_answered

OtherSource(source) == IF source = "random" THEN "manual" ELSE "random"

\* C5: the first successful submission of a calendar day, and no other, resets
\* the daily flags and sets dailyProgressDate to today; a submission sets the
\* flag of its own source and leaves the other flag as it was (after the reset,
\* when there is one).
C5_DailyFlags ==
    /\ \A j \in 1..Len(log) :
          log[j].flags_reset <=> (\A i \in 1..(j - 1) : log[i].day # log[j].day)
    /\ \A p \in Procs : Done201(p) =>
          LET before == req[p].state[1]
              after == CoupleState[1]
              today == req[p].today_str
              other == OtherSource(req[p].source)
          IN  /\ after.daily_progress_date = today
              /\ Flag(after, req[p].source) = 1
              /\ Flag(after, other) =
                    IF before.daily_progress_date # today THEN 0 ELSE Flag(before, other)

C5_Witness ==
    \E p \in Procs :
        /\ Done201(p)
        /\ req[p].state[1].daily_progress_date = req[p].today_str
        /\ Flag(req[p].state[1], req[p].source) = 0
        /\ Flag(req[p].state[1], OtherSource(req[p].source)) = 1
        /\ CoupleState[1].daily_random_answered = 1
        /\ CoupleState[1].daily_manual_answered = 1

\* the requests C6 names: userId not one of the two identities, questionText
\* missing or empty, source not manual or random, audio file missing or with an
\* extension outside the allow-list
NamedInvalid(form) ==
    \/ form.userId \notin {<<"nidhi">>, <<"arpan">>}
    \/ form.questionText \in {<<>>, << <<>> >>}
    \/ form.source \notin {<<"manual">>, <<"random">>}
    \/ form.audioFile = <<>>
    \/ Len(form.audioFile[1]) < 2
    \/ lower(form.audioFile[1][Len(form.audioFile[1])]) \notin ALLOWED_EXTENSIONS

\* C6: a request that fails validation is answered 400 and leaves Questions,
\* Answers, CoupleState and the upload folder as they were.
C6_ValidationRejects ==
    [][\A p \in Procs :
          (/\ pc[p] = "idle"
           /\ pc'[p] # "idle"
           /\ req'[p].form # <<>>
           /\ NamedInvalid(req'[p].form[1]))
          => /\ pc'[p] = "done"
             /\ req'[p].resp.status = 400
             /\ UNCHANGED <<Questions, Answers, CoupleState, blobs>>]_vars

C6_Witness ==
    \E p \in Procs :
        /\ pc[p] = "done"
        /\ req[p].resp.status = 400
        /\ req[p].form # <<>>
        /\ req[p].form[1].userId = <<"nidhi">>
        /\ req[p].form[1].audioFile = << <<"virus", "exe">> >>
        /\ Len(Answers) = 1

\* C7: a submission whose questionText is empty after trimming is rejected
\* with a validation error, and every stored Question has a non-empty, trimmed
\* text.
C7_BlankTextRejected ==
    /\ \A i \in 1..Len(Questions) :
          Questions[i] # <<>> /\ strip(Questions[i]) = Questions[i]
    /\ \A p \in Procs :
          (/\ pc[p] = "done"
           /\ req[p].form # <<>>
           /\ req[p].form[1].questionText # <<>>
           /\ strip(req[p].form[1].questionText[1]) = <<>>)
          => req[p].resp.status = 400

\* C8: a submission that fails after its file was written leaves no row and no
\* CoupleState change behind, and its file is deleted unless the deletion
\* itself failed: no step of a submission but its commit changes the stored
\* tables, and the failing step removes the file.
C8_FailureLeavesNothing ==
    [][\A p \in Procs :
          /\ (pc'[p] # pc[p] /\ pc'[p] # "final")
                => UNCHANGED <<Questions, Answers, CoupleState>>
          /\ (pc[p] \in TryPcs /\ pc'[p] = "done" /\ req[p].filepath # <<>>)
                => /\ req'[p].resp.status = 500
                   /\ writer' # p
                   /\ \/ req[p].filepath[1] \notin blobs'
                      \/ req'[p].resp.error = "Failed to process answer; cleanup failed"]_vars

C8_Witness ==
    \E p \in Procs :
        /\ pc[p] = "done"
        /\ req[p].resp.status = 500
        /\ req[p].resp.error = "Failed to process answer"
        /\ req[p].filepath # <<>>
        /\ req[p].filepath[1] \notin blobs
        /\ \A i \in 1..Len(Answers) : Answers[i].audio_filename # req[p].filepath[1]

\* C9: between a submission's read of CoupleState and its write of it no other
\* submission writes CoupleState, so no committed update is lost and lovePoints
\* is the sum of the points of the committed submissions.
C9_NoLostUpdate ==
    /\ \A p \in Procs :
          pc[p] \in {"update", "commit"} => (writer = p /\ CoupleState = req[p].state)
    /\ Len(CoupleState) = 1
    /\ CoupleState[1].love_points = InitialCoupleState.love_points + awarded
    /\ Len(log) = Len(Answers)

C9_Witness ==
    \E p, q \in Procs :
        /\ p # q
        /\ pc[p] \in {"update", "commit"}
        /\ pc[q] \in {"insert_q", "insert_a"}
        /\ writer = p
        /\ req[q].question_text = req[p].question_text

\* C10: the pending-questions query for U returns exactly the questions the
\* counterpart has answered and U has not; a question U has answered is never
\* in it.
C10_Pending ==
    \A u \in Users :
        LET ids == {e.id : e \in PendingQuestions(u)} IN
        /\ ids = {q \in 1..Len(Questions) :
                    /\ HasAnswer(Answers, q, Counterpart(u))
                    /\ ~HasAnswer(Answers, q, u)}
        /\ Cardinality(PendingQuestions(u)) = Cardinality(ids)
        /\ \A q \in 1..Len(Questions) : HasAnswer(Answers, q, u) => q \notin ids

C10_Witness ==
    \E u \in Users, q1 \in 1..Len(Questions) :
        /\ HasAnswer(Answers, q1, u)
        /\ HasAnswer(Answers, q1, Counterpart(u))
        /\ {e.id : e \in PendingQuestions(u)} = {}
        /\ {e.id : e \in PendingQuestions(Counterpart(u))} = {}
        /\ Len(Answers) = 2

\* worker p has answered a history query and not yet returned
HistoryReturned(p) == pc[p] = "done" /\ "history" \in DOMAIN req[p].resp

\* the stored Answers rows of a user for a question
StoredAnswers(question_id, user_id) ==
    {j \in 1..Len(Answers) :
        Answers[j].question_id = question_id /\ Answers[j].user_id = user_id}

\* C11: for every question and user the history holds at most one answer entry
\* of the user, and it is a stored Answer of the pair with the greatest
\* timestamp among the stored ones (the earlier ones stay stored and are not
\* returned); there is no entry when the pair has no stored Answer.
C11_HistoryLatest ==
    \A p \in Procs : HistoryReturned(p) =>
        LET history == req[p].resp.history IN
        /\ Len(history) = Len(Questions)
        /\ {history[i].id : i \in 1..Len(history)} = 1..Len(Questions)
        /\ \A i \in 1..Len(history), u \in Users :
              LET got == {e \in history[i].answers : e.user = u}
                  stored == StoredAnswers(history[i].id, u)
              IN  /\ Cardinality(got) <= 1
                  /\ (got = {}) <=> (stored = {})
                  /\ \A e \in got :
                        /\ \E j \in stored :
                              /\ e.timestamp = Answers[j].timestamp
                              /\ e.audioUrl = <<"api", "audio", Answers[j].audio_filename>>
                        /\ \A k \in stored : Answers[k].timestamp <= e.timestamp

C11_Witness ==
    \E p \in Procs :
        /\ HistoryReturned(p)
        /\ Len(Answers) = 2
        /\ Answers[1].question_id = Answers[2].question_id
        /\ Answers[1].user_id = Answers[2].user_id
        /\ Answers[1].timestamp < Answers[2].timestamp
        /\ Len(req[p].resp.history) = 1
        /\ req[p].resp.history[1].answers =
              {[user |-> Answers[2].user_id,
                audioUrl |-> <<"api", "audio", Answers[2].audio_filename>>,
                timestamp |-> Answers[2].timestamp]}

\* worker p has answered a state query and not yet returned
StateReturned(p) ==
    pc[p] = "done" /\ req[p].resp.status = 200 /\ "streak" \in DOMAIN req[p].resp

\* C12: the state query reports the stored daily flags when the stored
\* dailyProgressDate is today and false for both otherwise, and it leaves the
\* stored CoupleState (and the rest of the store) as it was.
C12_StateSnapshot ==
    [][\A p \in Procs :
          (/\ pc[p] = "idle"
           /\ pc'[p] = "done"
           /\ req'[p].resp.status = 200
           /\ "streak" \in DOMAIN req'[p].resp)
          => LET row == CoupleState[1]
                 today == <<DayOf(now')>>
                 fresh == row.daily_progress_date = today
                 resp == req'[p].resp
             IN  /\ UNCHANGED <<Questions, Answers, CoupleState, blobs>>
                 /\ resp.dailyRandomAnswered =
                       IF fresh THEN row.daily_random_answered ELSE 0
                 /\ resp.dailyManualAnswered =
                       IF fresh THEN row.daily_manual_answered ELSE 0
                 /\ resp.lovePoints = row.love_points
                 /\ resp.streak = row.streak_count
                 /\ resp.lastStreakUpdateDate = row.last_streak_update_date]_vars

C12_Witness ==
    \E p \in Procs :
        /\ StateReturned(p)
        /\ CoupleState[1].daily_progress_date = <<DayOf(now) - 1>>
        /\ CoupleState[1].daily_manual_answered = 1
        /\ req[p].resp.dailyRandomAnswered = 0
        /\ req[p].resp.dailyManualAnswered = 0
        /\ req[p].resp.lovePoints = 1

\* the calendar day of the initialization
BootDay == <<DayOf(0)>>

\* C13: the aggregate starts at lovePoints 0, streakCount 0 and
\* lastStreakUpdateDate the day before the initialization; the first submission,
\* made that day, is answered pointAwarded 1, lovePoints 1, streak 1,
\* lastStreakUpdateDate today; the counterpart's submission to the same question
\* the same day is then answered pointAwarded 5, lovePoints 6, streak 1.
C13_FreshExample ==
    /\ Len(log) = 0 =>
          /\ CoupleState[1].love_points = 0
          /\ CoupleState[1].streak_count = 0
          /\ CoupleState[1].last_streak_update_date = <<BootDay[1] - 1>>
    /\ \A p \in Procs :
          (Done201(p) /\ Len(log) = 1 /\ log[1].day = BootDay) =>
              /\ req[p].resp.pointAwarded = 1
              /\ req[p].resp.lovePoints = 1
              /\ req[p].resp.streak = 1
              /\ req[p].resp.lastStreakUpdateDate = BootDay
    /\ \A p \in Procs :
          (/\ Done201(p)
           /\ Len(log) = 2
           /\ log[1].day = BootDay
           /\ log[2].day = BootDay
           /\ Answers[1].question_id = Answers[2].question_id
           /\ Answers[1].user_id # Answers[2].user_id) =>
              /\ req[p].resp.pointAwarded = 5
              /\ req[p].resp.lovePoints = 6
              /\ req[p].resp.streak = 1
              /\ req[p].resp.lastStreakUpdateDate = BootDay

C13_Witness ==
    \E p \in Procs :
        /\ Done201(p)
        /\ Len(log) = 2
        /\ log[1].day = BootDay
        /\ log[2].day = BootDay
        /\ Answers[1].question_id = Answers[2].question_id
        /\ Answers[1].user_id # Answers[2].user_id
        /\ req[p].resp.lovePoints = 6
        /\ CoupleState[1].streak_count = 1

AwardDays == {log[i].day[1] : i \in 1..Len(log)}

\* the number of consecutive days of a set that end on day d
RECURSIVE ConsecutiveDays(_, _)
ConsecutiveDays(days, d) ==
    IF d \in days THEN 1 + ConsecutiveDays(days, d - 1) ELSE 0

\* C15: streakCount is the number of consecutive calendar days, ending on
\* lastStreakUpdateDate, on each of which a point-awarding submission
\* succeeded (0 in the initial state).
C15_StreakIsRun ==
    CoupleState[1].streak_count =
        ConsecutiveDays(AwardDays, CoupleState[1].last_streak_update_date[1])

\* the submission of worker p has committed
Committed(p) == pc[p] \in {"final", "done"} /\ req[p].answer # <<>>

\* C16: when the two users' first answers to the same question run
\* concurrently and both commit, they are not both awarded 1 point: the one
\* that commits second counts the other's Answer row and is awarded 5.
C16_NoDoubleFirst ==
    \A p, q \in Procs :
        (/\ p # q
         /\ Committed(p)
         /\ Committed(q)
         /\ req[p].user_id # req[q].user_id
         /\ req[p].question_text = req[q].question_text
         /\ Answers[Len(Answers)] = req[q].answer[1])
        => /\ req[p].points_to_add = 1
           /\ req[q].points_to_add = 5
           /\ pc[p] = "done" => req[p].resp.pointAwarded = 1
           /\ pc[q] = "done" => req[q].resp.pointAwarded = 5

C16_Witness ==
    \E p, q \in Procs :
        /\ p # q
        /\ Done201(p)
        /\ Done201(q)
        /\ req[p].user_id # req[q].user_id
        /\ req[p].question_text = req[q].question_text
        /\ Answers = req[p].answer \o req[q].answer
        /\ req[p].resp.pointAwarded = 1
        /\ req[q].resp.pointAwarded = 5
        /\ req[q].resp.lovePoints = 6

\* the greatest timestamp among the retained answers of a history entry, 0
\* when it has none
LatestRetained(entry) ==
    IF entry.answers = {} THEN 0
    ELSE CHOOSE t \in {e.timestamp : e \in entry.answers} :
            \A e \in entry.answers : e.timestamp <= t

\* C17: the history lists the questions by the greatest timestamp among each
\* question's retained answers, descending; a question without answers counts
\* as timestamp 0 and comes after every question that has an answer.
C17_HistoryOrder ==
    \A p \in Procs : HistoryReturned(p) =>
        LET history == req[p].resp.history IN
        /\ {history[i].id : i \in 1..Len(history)} = 1..Len(Questions)
        /\ \A i, j \in 1..Len(history) :
              i < j => LatestRetained(history[i]) >= LatestRetained(history[j])
        /\ \A i, j \in 1..Len(history) :
              (history[i].answers = {} /\ history[j].answers # {}) => j < i

C17_Witness ==
    \E p \in Procs :
        /\ HistoryReturned(p)
        /\ Len(req[p].resp.history) = 2
        /\ req[p].resp.history[1].id = 1
        /\ req[p].resp.history[1].answers # {}
        /\ req[p].resp.history[2].id = 2
        /\ req[p].resp.history[2].answers = {}

\* table t' holds the rows of t, in place, and possibly more
Extends(t, u) == Len(u) >= Len(t) /\ SubSeq(u, 1, Len(t)) = t

\* C18: a successful submission inserts exactly one Answer row and at most one
\* Question row and writes the one CoupleState row once, at its commit; the
\* rows and files stored before stay as they were: Questions and Answers only
\* grow, CoupleState always has exactly one row.
C18_SubmissionFrame ==
    [][/\ Extends(Questions, Questions')
       /\ Extends(Answers, Answers')
       /\ Len(CoupleState') = 1
       /\ \A p \in Procs :
             (pc[p] = "commit" /\ pc'[p] = "final") =>
                 /\ Answers' = Append(Answers, req[p].answer[1])
                 /\ \/ Questions' = Questions
                    \/ Questions' = Append(Questions, req[p].question_text)
                 /\ CoupleState' = req[p].update
                 /\ blobs' = blobs
       /\ (<<Questions, Answers, CoupleState>>' # <<Questions, Answers, CoupleState>>)
             => \E p \in Procs : pc[p] = "commit" /\ pc'[p] = "final"
       /\ \A p \in Procs :
             (pc'[p] # pc[p] /\ ~(pc'[p] = "done" /\ req'[p].resp.status = 500)) =>
                 /\ blobs \subseteq blobs'
                 /\ blobs' \ blobs \subseteq {req'[p].filepath[i] : i \in 1..Len(req'[p].filepath)}]_vars

C18_Witness ==
    \E p \in Procs :
        /\ Done201(p)
        /\ ~req[p].inserted_question
        /\ Len(Questions) = 1
        /\ Len(Answers) = 2
        /\ Answers[2] = req[p].answer[1]
        /\ Len(CoupleState) = 1
        /\ CoupleState[1].love_points > req[p].state[1].love_points
        /\ Cardinality(blobs) = 2

\* C19: every successful submission is awarded 1 or 5 points, never 0, so
\* lovePoints grows with each one and the streak rule's 'points were awarded'
\* test passes each time (lastStreakUpdateDate is today after every successful
\* submission), a user's repeat answer to a question included.
C19_AlwaysAwarded ==
    \A p \in Procs : Done201(p) =>
        /\ req[p].resp.pointAwarded \in {1, 5}
        /\ req[p].points_to_add > 0
        /\ CoupleState[1].love_points > req[p].state[1].love_points
        /\ req[p].resp.lovePoints > req[p].state[1].love_points
        /\ CoupleState[1].last_streak_update_date = req[p].today_str

C19_Witness ==
    \E p \in Procs :
        /\ Done201(p)
        /\ Len(Answers) = 2
        /\ Answers[1].user_id = Answers[2].user_id
        /\ Answers[1].question_id = Answers[2].question_id
        /\ req[p].resp.pointAwarded = 1
        /\ req[p].resp.lovePoints = 2
        /\ req[p].state[1].last_streak_update_date # req[p].today_str

\* C20: in every committed state every Question row is referenced by at least
\* one Answer row: a Question is inserted in the transaction of an Answer to
\* it, and a failure rolls both back.
C20_QuestionsAnswered ==
    \A q \in 1..Len(Questions) :
        \E i \in 1..Len(Answers) : Answers[i].question_id = q

C20_Witness ==
    \E p, q \in Procs :
        /\ p # q
        /\ pc[p] = "done"
        /\ req[p].resp.status = 500
        /\ req[p].filepath # <<>>
        /\ pc[q] = "idle"
        /\ Questions = <<>>
        /\ Answers = <<>>

\* C21: right after a successful submission the stored lastStreakUpdateDate
\* and dailyProgressDate are today (the date the submission read as today),
\* streakCount is at least 1 and the daily flag of the submission's source is
\* set.
C21_AfterSubmission ==
    \A p \in Procs : Done201(p) =>
        LET stored == CoupleState[1]
            today == req[p].today_str
        IN  /\ stored = req[p].update[1]
            /\ stored.last_streak_update_date = today
            /\ stored.daily_progress_date = today
            /\ stored.streak_count >= 1
            /\ Flag(stored, req[p].source) = 1

C21_Witness ==
    \E p \in Procs :
        /\ Done201(p)
        /\ Len(log) = 2
        /\ log[1].day # log[2].day
        /\ req[p].state[1].last_streak_update_date # req[p].today_str
        /\ req[p].state[1].daily_progress_date # req[p].today_str
        /\ Flag(req[p].state[1], OtherSource(req[p].source)) = 1
        /\ Flag(req[p].state[1], req[p].source) = 0
        /\ CoupleState[1].daily_progress_date = req[p].today_str
        /\ Flag(CoupleState[1], req[p].source) = 1

====
